---- MODULE Spec2Model ----
(***************************************************************************)
(* Canny edge detection of src/src/LowPoly/EdgeDraw/edgedetect.cpp:        *)
(* extractEdgeCanny, gradientInGray, gradientInColor, calculateGradient,   *)
(* nonMaxSuppression, discretizeDirection, trackEdge and mark.             *)
(*                                                                         *)
(* Three specifications share the variables:                               *)
(*   Spec       trackEdge (and the recursive mark) run on a grid, then run *)
(*              once more on its own output;                               *)
(*   SpecCanny  the whole pipeline extractEdgeCanny;                       *)
(*   SpecDir    discretizeDirection on one float angle.                    *)
(*                                                                         *)
(* Grids are functions on Pixels(w, h), pixel <<x, y>>.  A float angle is  *)
(* an integer count of 2^-19 degree, the spacing of the floats of          *)
(* [16, 32); RoundF gives the IEEE single rounding of a sum.               *)
(***************************************************************************)
EXTENDS Integers, Sequences, FiniteSets, TLC

VARIABLES
    pc,             \* position in the running function
    W, H,           \* width() and height() of every grid of the run
    method,         \* extractEdgeCanny's parameter
    image,          \* the RGB image handed to extractEdgeCanny
    gradient,       \* CImg gradient
    direction,      \* CImgFloat direction
    edge,           \* CImg edge, mutated in place by trackEdge
    highThreshold,  \* trackEdge's local
    lowThreshold,   \* trackEdge's local
    scan,           \* raster position of trackEdge's third loop
    stack,          \* call stack of mark: frames <<x, y, k>>, k the next neighbour
    marks,          \* per pixel, the number of mark calls made on it in this run
    in0,            \* the grid as it was when the current trackEdge run began
    run,            \* 1 for the first trackEdge run, 2 for the run on its output
    out,            \* what was written to std::cout
    angle,          \* discretizeDirection's argument
    dir             \* discretizeDirection's return value

vars == <<pc, W, H, method, image, gradient, direction, edge, highThreshold,
          lowThreshold, scan, stack, marks, in0, run, out, angle, dir>>

(***************************************************************************)
(* Bounds of the model.                                                    *)
(***************************************************************************)
\* trackEdge is run on every grid of at most MaxPixels pixels whose sides are
\* at most MaxSide.
MaxPixels == 8
MaxSide == 4

\* Values a pixel of trackEdge's argument is drawn from.
PixelVals == {0, 200, 255}

\* unsigned char holds 0 .. 255; 255 is also trackEdge's mark.
UCharMax == 255

Pixels(w, h) == (0 .. w - 1) \X (0 .. h - 1)

\* cimg_forXY: y is the outer loop, x the inner one.
RasterPixel(k, w) == <<k % w, k \div w>>

NoGrid == [p \in {} |-> 0]

(***************************************************************************)
(* Arithmetic helpers.                                                     *)
(***************************************************************************)
\* The values of grid f summed over its first n pixels in raster order.
RECURSIVE SumUpTo(_, _, _)
SumUpTo(f, w, n) ==
    IF n = 0 THEN 0 ELSE f[RasterPixel(n - 1, w)] + SumUpTo(f, w, n - 1)

SumGrid(f, w, h) == SumUpTo(f, w, w * h)

RECURSIVE ISqrtIn(_, _, _)
ISqrtIn(n, lo, hi) ==
    IF lo = hi THEN lo
    ELSE LET mid == (lo + hi + 1) \div 2
         IN IF mid * mid <= n THEN ISqrtIn(n, mid, hi) ELSE ISqrtIn(n, lo, mid - 1)

\* (integer)sqrt(n) for 0 <= n < 2^22: the integer part of the double sqrt.
ISqrt(n) == ISqrtIn(n, 0, 2047)

\* The two outcomes of converting a floating value to unsigned char: in range
\* it is the value; out of range the conversion is undefined, and a build
\* either keeps the low 8 bits (x86, ARM) or saturates.
NarrowModes == {"wrap", "saturate"}

Narrow(mode, v) ==
    IF v <= UCharMax THEN v
    ELSE IF mode = "wrap" THEN v % (UCharMax + 1) ELSE UCharMax

(***************************************************************************)
(* trackEdge, lines 184-218, and mark, lines 220-234.                      *)
(***************************************************************************)
\* lines 186-191: unsigned sum, then unsigned division.
Mean(e, w, h) == SumGrid(e, w, h) \div (w * h)

\* lines 193-196: squared distances to mean summed, then unsigned division.
SumSq(e, w, h) ==
    LET m == Mean(e, w, h)
    IN SumGrid([p \in Pixels(w, h) |-> (e[p] - m) * (e[p] - m)], w, h)

Variance(e, w, h) == SumSq(e, w, h) \div (w * h)

\* line 200: (unsigned char)(mean + 2 * stdDev); the integer part of
\* 2 * sqrt(v) is ISqrt(4 * v).
HighOf(e, w, h, mode) == Narrow(mode, Mean(e, w, h) + ISqrt(4 * Variance(e, w, h)))

\* line 201: (unsigned char)(mean + 1 * stdDev).
LowOf(e, w, h, mode) == Narrow(mode, Mean(e, w, h) + ISqrt(Variance(e, w, h)))

\* line 204: the pixel starts a mark.
IsSeed(v, high) == v >= high /\ v # UCharMax

\* line 207.
IsNoise(v, low) == v < low

\* lines 226-228: the neighbour k of <<x, y>> (dx outer, dy inner).
Neighbour(x, y, k) == <<x + (k \div 3) - 1, y + (k % 3) - 1>>

InGrid(p, w, h) == p[1] >= 0 /\ p[1] < w /\ p[2] >= 0 /\ p[2] < h

\* Qualifies without the test that skips a pixel already marked.
Qualifies_NoMarkTest(e, p, w, h, low) == InGrid(p, w, h) /\ e[p] >= low

Qualifies(e, p, w, h, low) ==
    InGrid(p, w, h) /\ e[p] # UCharMax /\ e[p] >= low

\* ClearUnselected clearing only what is below the low threshold.
ClearUnselected_BelowLow(e, low) == [p \in DOMAIN e |-> IF e[p] < low THEN 0 ELSE e[p]]

\* lines 213-217.
ClearUnselected(e, low) == [p \in DOMAIN e |-> IF e[p] # UCharMax THEN 0 ELSE e[p]]

\* lines 185-201: the statistics and the two thresholds.
TrackStats ==
    /\ pc = "stats"
    /\ \E mode \in NarrowModes :
          /\ highThreshold' = HighOf(edge, W, H, mode)
          /\ lowThreshold' = LowOf(edge, W, H, mode)
    /\ pc' = "scan"
    /\ scan' = 0
    /\ UNCHANGED <<W, H, method, image, gradient, direction, edge, stack, marks,
                   in0, run, out, angle, dir>>

\* lines 204-206 and 221: the pixel is a seed; mark is called and sets it.
ScanMark ==
    /\ pc = "scan" /\ stack = <<>> /\ scan < W * H
    /\ LET p == RasterPixel(scan, W)
       IN /\ IsSeed(edge[p], highThreshold)
          /\ edge' = [edge EXCEPT ![p] = UCharMax]
          /\ marks' = [marks EXCEPT ![p] = @ + 1]
          /\ stack' = <<<<p[1], p[2], 0>>>>
    /\ scan' = scan + 1
    /\ UNCHANGED <<pc, W, H, method, image, gradient, direction, highThreshold,
                   lowThreshold, in0, run, out, angle, dir>>

\* lines 207-208.
ScanSuppress ==
    /\ pc = "scan" /\ stack = <<>> /\ scan < W * H
    /\ LET p == RasterPixel(scan, W)
       IN /\ ~IsSeed(edge[p], highThreshold)
          /\ IsNoise(edge[p], lowThreshold)
          /\ edge' = [edge EXCEPT ![p] = 0]
    /\ scan' = scan + 1
    /\ UNCHANGED <<pc, W, H, method, image, gradient, direction, highThreshold,
                   lowThreshold, stack, marks, in0, run, out, angle, dir>>

\* neither branch of lines 204-209.
ScanKeep ==
    /\ pc = "scan" /\ stack = <<>> /\ scan < W * H
    /\ LET p == RasterPixel(scan, W)
       IN /\ ~IsSeed(edge[p], highThreshold)
          /\ ~IsNoise(edge[p], lowThreshold)
    /\ scan' = scan + 1
    /\ UNCHANGED <<pc, W, H, method, image, gradient, direction, edge,
                   highThreshold, lowThreshold, stack, marks, in0, run, out,
                   angle, dir>>

\* lines 224-231, 221: the neighbour qualifies; mark recurses and sets it.
MarkCall ==
    /\ pc = "scan" /\ stack # <<>>
    /\ LET top == stack[Len(stack)]
           q == Neighbour(top[1], top[2], top[3])
       IN /\ top[3] < 9
          /\ Qualifies(edge, q, W, H, lowThreshold)
          /\ edge' = [edge EXCEPT ![q] = UCharMax]
          /\ marks' = [marks EXCEPT ![q] = @ + 1]
          /\ stack' = Append([stack EXCEPT ![Len(stack)] = <<top[1], top[2], top[3] + 1>>],
                             <<q[1], q[2], 0>>)
    /\ UNCHANGED <<pc, W, H, method, image, gradient, direction, highThreshold,
                   lowThreshold, scan, in0, run, out, angle, dir>>

\* lines 224-228: the neighbour does not qualify.
MarkSkip ==
    /\ pc = "scan" /\ stack # <<>>
    /\ LET top == stack[Len(stack)]
           q == Neighbour(top[1], top[2], top[3])
       IN /\ top[3] < 9
          /\ ~Qualifies(edge, q, W, H, lowThreshold)
          /\ stack' = [stack EXCEPT ![Len(stack)] = <<top[1], top[2], top[3] + 1>>]
    /\ UNCHANGED <<pc, W, H, method, image, gradient, direction, edge,
                   highThreshold, lowThreshold, scan, marks, in0, run, out,
                   angle, dir>>

\* line 234: both loops of mark are over.
MarkReturn ==
    /\ pc = "scan" /\ stack # <<>>
    /\ stack[Len(stack)][3] = 9
    /\ stack' = SubSeq(stack, 1, Len(stack) - 1)
    /\ UNCHANGED <<pc, W, H, method, image, gradient, direction, edge,
                   highThreshold, lowThreshold, scan, marks, in0, run, out,
                   angle, dir>>

\* lines 212-218: the third loop is over; clear what was not selected.
ClearStep ==
    /\ pc = "scan" /\ stack = <<>> /\ scan = W * H
    /\ edge' = ClearUnselected(edge, lowThreshold)
    /\ pc' = "done"
    /\ UNCHANGED <<W, H, method, image, gradient, direction, highThreshold,
                   lowThreshold, scan, stack, marks, in0, run, out, angle, dir>>

\* trackEdge is called again, on the grid the first call left.
Rerun ==
    /\ pc = "done" /\ run = 1
    /\ run' = 2
    /\ in0' = edge
    /\ marks' = [p \in Pixels(W, H) |-> 0]
    /\ pc' = "stats"
    /\ UNCHANGED <<W, H, method, image, gradient, direction, edge,
                   highThreshold, lowThreshold, scan, stack, out, angle, dir>>

Init ==
    /\ W \in 1 .. MaxSide
    /\ H \in 1 .. MaxSide
    /\ W * H <= MaxPixels
    /\ edge \in [Pixels(W, H) -> PixelVals]
    /\ in0 = edge
    /\ marks = [p \in Pixels(W, H) |-> 0]
    /\ pc = "stats"
    /\ run = 1
    /\ highThreshold = 0 /\ lowThreshold = 0 /\ scan = 0
    /\ stack = <<>>
    /\ method = 0 /\ image = NoGrid /\ gradient = NoGrid /\ direction = NoGrid
    /\ out = <<>> /\ angle = 0 /\ dir = 0

Next ==
    \/ TrackStats
    \/ ScanMark
    \/ ScanSuppress
    \/ ScanKeep
    \/ MarkCall
    \/ MarkSkip
    \/ MarkReturn
    \/ ClearStep
    \/ Rerun

Spec == Init /\ [][Next]_vars

(***************************************************************************)
(* Claims about trackEdge and mark, checked under Spec.                    *)
(***************************************************************************)
AllPixels == Pixels(W, H)

\* C1: when trackEdge returns, every pixel of the grid is 0 or 255.
C1_BinaryOnReturn ==
    pc = "done" => \A p \in AllPixels : edge[p] \in {0, UCharMax}

\* trackEdge has returned a grid in which a pixel that was neither noise nor
\* marked has been cleared by the last loop, and another pixel is 255.
C1_Witness ==
    /\ pc = "done" /\ run = 1
    /\ \E p, q \in AllPixels :
          /\ in0[p] \notin {0, UCharMax} /\ in0[p] >= lowThreshold /\ edge[p] = 0
          /\ edge[q] = UCharMax

\* C5: trackEdge run on its own output leaves every pixel unchanged.
C5_Idempotent ==
    (run = 2 /\ pc = "done") => edge = in0

\* C8: trackEdge terminates within a number of steps linear in W*H, each
\* pixel is the target of at most one mark call per run, the mark calls of a
\* run number at most W*H, and mark is never called on a pixel that is 255.
\* Termination: every step of a run lowers Measure, a natural number that
\* starts at no more than 12*W*H + 2, and a run that has not returned can
\* always take a step.
RECURSIVE FramesLeft(_, _)
FramesLeft(st, k) ==
    IF k = 0 THEN 0 ELSE (10 - st[k][3]) + FramesLeft(st, k - 1)

Measure ==
    (IF pc = "stats" THEN W * H + 2 ELSE IF pc = "scan" THEN W * H - scan + 1 ELSE 0)
    + FramesLeft(stack, Len(stack))
    + 11 * Cardinality({p \in AllPixels : edge[p] # UCharMax})

\* The guards of trackEdge's steps, taken together: a run that has not
\* returned has a step to take.
CanStep ==
    \/ pc = "stats"
    \/ /\ pc = "scan"
       /\ scan <= W * H
       /\ stack # <<>> => stack[Len(stack)][3] <= 9

MeasureOK == Measure >= 0 /\ Measure <= 12 * W * H + 2

MarksOK(m) ==
    /\ \A p \in AllPixels : m[p] <= 1
    /\ SumGrid(m, W, H) <= W * H

C8_StepOK ==
    /\ MeasureOK /\ MeasureOK'
    /\ MarksOK(marks) /\ MarksOK(marks')
    /\ (pc # "done" => CanStep) /\ (pc # "done" => CanStep)'
    /\ (pc # "done" => Measure' < Measure)
    /\ \A p \in AllPixels :
          (pc # "done" /\ marks'[p] > marks[p]) => (edge[p] # UCharMax /\ edge'[p] = UCharMax)

C8_MarkOnceAndTerminates == [][C8_StepOK]_vars

\* mark has recursed three deep and already entered three pixels.
C8_Witness ==
    /\ Len(stack) >= 3
    /\ SumGrid(marks, W, H) >= 3

\* C9: every pixel that is >= lowThreshold on entry and joined, through
\* 8-neighbours that are all >= lowThreshold on entry, to a pixel that is
\* >= highThreshold on entry (255 included) is 255 when trackEdge returns.
Adjacent(p, q) ==
    p # q /\ p[1] - q[1] \in -1 .. 1 /\ p[2] - q[2] \in -1 .. 1

RECURSIVE Linked(_)
Linked(S) ==
    LET T == S \cup {p \in AllPixels :
                        in0[p] >= lowThreshold /\ \E q \in S : Adjacent(p, q)}
    IN IF T = S THEN S ELSE Linked(T)

C9_SingleLinkComplete ==
    pc = "done" =>
        \A p \in Linked({q \in AllPixels :
                            in0[q] >= highThreshold /\ in0[q] >= lowThreshold}) :
            edge[p] = UCharMax

(***************************************************************************)
(* discretizeDirection, lines 163-182, on float angles.                    *)
(***************************************************************************)
\* Angles are counted in units of 2^-19 degree.
AngleUnit == 2 ^ 19

Deg(d) == d * AngleUnit

\* h half degrees: 22.5 degrees is HalfDeg(45).
HalfDeg(h) == h * (AngleUnit \div 2)

Abs(v) == IF v < 0 THEN -v ELSE v

\* The spacing of the IEEE single floats around v, in units: 2^-19 degree
\* below 32 degrees, doubling with each binade.
Spacing(v) ==
    IF Abs(v) < Deg(32) THEN 1
    ELSE IF Abs(v) < Deg(64) THEN 2
    ELSE IF Abs(v) < Deg(128) THEN 4
    ELSE IF Abs(v) < Deg(256) THEN 8
    ELSE IF Abs(v) < Deg(512) THEN 16
    ELSE 32

IsFloat(v) == v % Spacing(v) = 0

\* The float nearest to v, ties to the even one: what a float operation
\* stores for the exact result v.
RoundF(v) ==
    LET s == Spacing(v)
        q == v \div s
        r == v % s
    IN IF 2 * r < s THEN q * s
       ELSE IF 2 * r > s THEN (q + 1) * s
       ELSE IF q % 2 = 0 THEN q * s ELSE (q + 1) * s

\* lines 164-166: angle += 180 is a float addition.
Fold(a) == IF a < 0 THEN RoundF(a + Deg(180)) ELSE a

\* lines 167-181.
DiscretizeDirection(a) ==
    LET f == Fold(a)
    IN IF (f < HalfDeg(45) /\ f >= -HalfDeg(45)) \/ f >= HalfDeg(315) \/ f < -HalfDeg(315)
       THEN 0
       ELSE IF (f >= HalfDeg(45) /\ f < HalfDeg(135)) \/ (f < -HalfDeg(225) /\ f >= -HalfDeg(315))
       THEN 1
       ELSE IF (f >= HalfDeg(135) /\ f < HalfDeg(225)) \/ (f < -HalfDeg(135) /\ f >= -HalfDeg(225))
       THEN 2
       ELSE IF (f >= HalfDeg(225) /\ f < HalfDeg(315)) \/ (f < -HalfDeg(45) /\ f >= -HalfDeg(135))
       THEN 3
       ELSE -1

\* The arguments: every half degree up to MaxHalfDeg half degrees either
\* way, and the floats up to MaxUlps floats away from each boundary.
MaxHalfDeg == 720
MaxUlps == 6

Boundaries == {HalfDeg(h) : h \in {-360, -315, -225, -135, -45, 0, 45, 135, 225, 315, 360}}

Angles ==
    {HalfDeg(h) : h \in -MaxHalfDeg .. MaxHalfDeg}
    \cup {v \in {b + j * Spacing(b) : b \in Boundaries, j \in -MaxUlps .. MaxUlps} : IsFloat(v)}

\* discretizeDirection(angle), with line 179's message.
Discretize ==
    /\ pc = "call"
    /\ dir' = DiscretizeDirection(angle)
    /\ out' = IF dir' = -1 THEN Append(out, "Error: Angle out of range") ELSE out
    /\ pc' = "ret"
    /\ UNCHANGED <<W, H, method, image, gradient, direction, edge,
                   highThreshold, lowThreshold, scan, stack, marks, in0, run, angle>>

InitDir ==
    /\ angle \in Angles
    /\ pc = "call"
    /\ dir = 0 /\ out = <<>>
    /\ W = 0 /\ H = 0 /\ method = 0
    /\ image = NoGrid /\ gradient = NoGrid /\ direction = NoGrid /\ edge = NoGrid
    /\ in0 = NoGrid /\ marks = NoGrid
    /\ highThreshold = 0 /\ lowThreshold = 0 /\ scan = 0 /\ stack = <<>> /\ run = 1

NextDir == Discretize

SpecDir == InitDir /\ [][NextDir]_vars

(***************************************************************************)
(* Claims about discretizeDirection, checked under SpecDir.                *)
(***************************************************************************)
InDomain(a) == a >= -Deg(180) /\ a <= Deg(180)

\* The bin the documentation gives an angle of [-180, 180].
DocumentedBin(a) ==
    IF (a >= -HalfDeg(45) /\ a < HalfDeg(45)) \/ a >= HalfDeg(315) \/ a < -HalfDeg(315) THEN 0
    ELSE IF (a >= HalfDeg(45) /\ a < HalfDeg(135)) \/ (a >= -HalfDeg(315) /\ a < -HalfDeg(225)) THEN 1
    ELSE IF (a >= HalfDeg(135) /\ a < HalfDeg(225)) \/ (a >= -HalfDeg(225) /\ a < -HalfDeg(135)) THEN 2
    ELSE 3

\* C6: on [-180, 180] discretizeDirection returns the documented bin (0 for
\* [-22.5,22.5), [157.5,180], [-180,-157.5); 1 for [22.5,67.5),
\* [-157.5,-112.5); 2 for [67.5,112.5), [-112.5,-67.5); 3 for [112.5,157.5),
\* [-67.5,-22.5)), and never -1.
C6_DocumentedBin ==
    (pc = "ret" /\ InDomain(angle)) => dir = DocumentedBin(angle)

\* C7: for an angle above 180 or below -180 discretizeDirection returns the
\* error value -1 and none of the bins.
C7_OutOfDomainIsError ==
    (pc = "ret" /\ ~InDomain(angle)) => dir = -1

(***************************************************************************)
(* extractEdgeCanny, lines 11-31, and its stages.                          *)
(***************************************************************************)
\* lines 44-46: the grey value of an RGB pixel, truncated.  The weights are
\* doubles; on the triples of CannyInputs the double sum and the exact sum
\* have the same integer part.
GrayValue(rgb) == (299 * rgb[1] + 587 * rgb[2] + 114 * rgb[3]) \div 1000

\* lines 40-50.
GrayImage(img) == [p \in DOMAIN img |-> GrayValue(img[p])]

\* lines 63-64 and 120: the pixel is not on the border.
Interior(p, w, h) == p[1] > 0 /\ p[1] < w - 1 /\ p[2] > 0 /\ p[2] < h - 1

\* lines 93-94.
SOBEL_X == <<<<-1, 0, 1>>, <<-2, 0, 2>>, <<-1, 0, 1>>>>
SOBEL_Y == <<<<-1, -2, -1>>, <<0, 0, 0>>, <<1, 2, 1>>>>

Offsets == (-1 .. 1) \X (-1 .. 1)

RECURSIVE SumSet(_, _)
SumSet(f, S) ==
    IF S = {} THEN 0
    ELSE LET d == CHOOSE c \in S : TRUE IN f[d] + SumSet(f, S \ {d})

\* lines 100-107: the kernel entry [i + 1][j + 1] weighs image(x + i, y + j).
Convolve(kernel, img, x, y) ==
    SumSet([d \in Offsets |-> kernel[d[1] + 2][d[2] + 2] * img[<<x + d[1], y + d[2]>>]],
           Offsets)

GradientX(img, x, y) == Convolve(SOBEL_X, img, x, y)

GradientY(img, x, y) == Convolve(SOBEL_Y, img, x, y)

\* atan2(b, a) for a, b >= 0, not both 0, as <<k, exact>>: the angle lies in
\* [22.5 k, 22.5 (k + 1)) degrees and is 22.5 k exactly iff exact.  tan 22.5
\* is sqrt 2 - 1 and tan 67.5 is sqrt 2 + 1.
QuadrantSector(b, a) ==
    IF b = 0 THEN <<0, TRUE>>
    ELSE IF a = 0 THEN <<4, TRUE>>
    ELSE IF a = b THEN <<2, TRUE>>
    ELSE IF b < a
         THEN IF (b + a) * (b + a) >= 2 * a * a THEN <<1, FALSE>> ELSE <<0, FALSE>>
         ELSE IF (b - a) * (b - a) >= 2 * a * a THEN <<3, FALSE>> ELSE <<2, FALSE>>

\* line 111: atan2(gy, gx) * 180 / M_PI, rounded down to a multiple of 22.5
\* degrees.  discretizeDirection compares an angle with multiples of 22.5
\* only, so the rounding keeps the bin; for integers gx, gy up to 1020 in
\* size the float angle is never within a float of such a multiple unless
\* it equals it.
Atan2Deg(gy, gx) ==
    IF gx = 0 /\ gy = 0 THEN 0
    ELSE LET s == QuadrantSector(Abs(gy), Abs(gx))
             up == IF gx >= 0 THEN s[1]
                   ELSE IF s[2] THEN 8 - s[1] ELSE 8 - (s[1] + 1)
         IN IF gy >= 0 THEN up * HalfDeg(45)
            ELSE IF s[2] THEN -up * HalfDeg(45)
            ELSE -(up + 1) * HalfDeg(45)

\* lines 92-112: magnitude and direction of one pixel; the magnitude is
\* narrowed to the unsigned char the gradient grid holds (line 66).
CalculateGradient(img, x, y, mode) ==
    LET gx == GradientX(img, x, y)
        gy == GradientY(img, x, y)
    IN [mag |-> Narrow(mode, ISqrt(gx * gx + gy * gy)), dir |-> Atan2Deg(gy, gx)]

\* lines 132-149: the two neighbours compared for bin d; none for -1.
SuppressionPair(d, x, y) ==
    IF d = 0 THEN <<<<x - 1, y>>, <<x + 1, y>>>>
    ELSE IF d = 1 THEN <<<<x - 1, y - 1>>, <<x + 1, y + 1>>>>
    ELSE IF d = 2 THEN <<<<x, y - 1>>, <<x, y + 1>>>>
    ELSE IF d = 3 THEN <<<<x + 1, y - 1>>, <<x - 1, y + 1>>>>
    ELSE <<>>

\* lines 123-157: what nonMaxSuppression writes to an interior pixel.
Suppressed(grad, dirs, x, y) ==
    LET pair == SuppressionPair(DiscretizeDirection(dirs[<<x, y>>]), x, y)
        magnitude == grad[<<x, y>>]
        mag1 == IF pair = <<>> THEN 0 ELSE grad[pair[1]]
        mag2 == IF pair = <<>> THEN 0 ELSE grad[pair[2]]
    IN IF magnitude >= mag1 /\ magnitude >= mag2 THEN magnitude ELSE 0

\* What a grid constructed without a fill value may hold: the constructor
\* leaves the buffer as the allocator returned it.
UninitBytes == {0, 255}
UninitAngles == {0, HalfDeg(180)}

\* The images extractEdgeCanny is called on: every grey image of side
\* CannySide over the levels 10 and 200, the 5x5 image with 200 on the main
\* diagonal and 10 elsewhere, and the flat 10x10 image of level 100.
CannySide == 3
FlatSide == 10

Grey(v) == <<v, v, v>>

CannyInputs ==
    {[w |-> CannySide, h |-> CannySide, img |-> f] :
        f \in [Pixels(CannySide, CannySide) -> {Grey(10), Grey(200)}]}
    \cup {[w |-> 5, h |-> 5,
           img |-> [p \in Pixels(5, 5) |-> IF p[1] = p[2] THEN Grey(200) ELSE Grey(10)]]}
    \cup {[w |-> FlatSide, h |-> FlatSide, img |-> [p \in Pixels(FlatSide, FlatSide) |-> Grey(100)]]}

\* lines 13-18 and gradientInGray, lines 36-76.
GradientInGray ==
    /\ pc = "start" /\ method = 0
    /\ \E gfill \in UninitBytes, dfill \in UninitAngles, mode \in NarrowModes :
          LET gray == GrayImage(image)
          IN /\ gradient' = [p \in Pixels(W, H) |->
                                IF Interior(p, W, H)
                                THEN CalculateGradient(gray, p[1], p[2], mode).mag
                                ELSE gfill]
             /\ direction' = [p \in Pixels(W, H) |->
                                IF Interior(p, W, H)
                                THEN CalculateGradient(gray, p[1], p[2], mode).dir
                                ELSE dfill]
    /\ pc' = "nms"
    /\ UNCHANGED <<W, H, method, image, edge, highThreshold, lowThreshold, scan,
                   stack, marks, in0, run, out, angle, dir>>

\* lines 13-14, 19-20 and gradientInColor, lines 81-84: a message, and the
\* two grids stay as constructed.
GradientInColor ==
    /\ pc = "start" /\ method # 0
    /\ \E gfill \in UninitBytes, dfill \in UninitAngles :
          /\ gradient' = [p \in Pixels(W, H) |-> gfill]
          /\ direction' = [p \in Pixels(W, H) |-> dfill]
    /\ out' = Append(out, "Error: Function not implemented")
    /\ pc' = "nms"
    /\ UNCHANGED <<W, H, method, image, edge, highThreshold, lowThreshold, scan,
                   stack, marks, in0, run, angle, dir>>

\* lines 24-25 and nonMaxSuppression, lines 117-161; then trackEdge is
\* entered (line 28).
NonMaxSuppression ==
    /\ pc = "nms"
    /\ \E efill \in UninitBytes :
          edge' = [p \in Pixels(W, H) |->
                      IF Interior(p, W, H)
                      THEN Suppressed(gradient, direction, p[1], p[2])
                      ELSE efill]
    /\ in0' = edge'
    /\ marks' = [p \in Pixels(W, H) |-> 0]
    /\ pc' = "stats"
    /\ UNCHANGED <<W, H, method, image, gradient, direction, highThreshold,
                   lowThreshold, scan, stack, run, out, angle, dir>>

\* line 30.
Return ==
    /\ pc = "done"
    /\ pc' = "returned"
    /\ UNCHANGED <<W, H, method, image, gradient, direction, edge,
                   highThreshold, lowThreshold, scan, stack, marks, in0, run,
                   out, angle, dir>>

InitCanny ==
    /\ \E c \in CannyInputs : W = c.w /\ H = c.h /\ image = c.img
    /\ method \in {0, 1}
    /\ pc = "start"
    /\ gradient = NoGrid /\ direction = NoGrid /\ edge = NoGrid
    /\ in0 = NoGrid /\ marks = NoGrid
    /\ highThreshold = 0 /\ lowThreshold = 0 /\ scan = 0 /\ stack = <<>> /\ run = 1
    /\ out = <<>> /\ angle = 0 /\ dir = 0

NextCanny ==
    \/ GradientInGray
    \/ GradientInColor
    \/ NonMaxSuppression
    \/ TrackStats
    \/ ScanMark
    \/ ScanSuppress
    \/ ScanKeep
    \/ MarkCall
    \/ MarkSkip
    \/ MarkReturn
    \/ ClearStep
    \/ Return

SpecCanny == InitCanny /\ [][NextCanny]_vars

(***************************************************************************)
(* Claims about the pipeline, checked under SpecCanny.                     *)
(***************************************************************************)
Flat(img) == \A p, q \in DOMAIN img : img[p] = img[q]

Diagonal5 == [p \in Pixels(5, 5) |-> IF p[1] = p[2] THEN Grey(200) ELSE Grey(10)]

\* C2: the pipeline with method 0 on a flat image (all pixels alike, such
\* as the 10x10 image of level 100) returns a grid that is 0 everywhere.
C2_FlatGivesNoEdge ==
    (pc = "returned" /\ method = 0 /\ Flat(image)) =>
        \A p \in AllPixels : edge[p] = 0

\* C3: the pipeline with method 0 on the 5x5 image with 200 on the main
\* diagonal and 10 elsewhere returns 255 at (1,1), (2,2), (3,3) and 0 at
\* every other pixel.
C3_DiagonalEdge ==
    (pc = "returned" /\ method = 0 /\ W = 5 /\ H = 5 /\ image = Diagonal5) =>
        \A p \in AllPixels :
            edge[p] = IF p \in {<<1, 1>>, <<2, 2>>, <<3, 3>>} THEN UCharMax ELSE 0

\* C4: with method 1 the call fails: suppression and edge tracking do not
\* run and no grid is returned.
C4_ColorPathFails ==
    method = 1 => pc \notin {"stats", "scan", "done", "returned"}

\* C10: at every interior pixel gradientX is the horizontal Sobel derivative
\* and gradientY the vertical one; so in an image whose rows are all alike
\* every interior pixel has gradientY = 0 and a direction of bin 0, and is
\* compared with its neighbours (x-1,y) and (x+1,y).
HorizontalSobel(I, x, y) ==
    (I[<<x + 1, y - 1>>] + 2 * I[<<x + 1, y>>] + I[<<x + 1, y + 1>>])
    - (I[<<x - 1, y - 1>>] + 2 * I[<<x - 1, y>>] + I[<<x - 1, y + 1>>])

VerticalSobel(I, x, y) ==
    (I[<<x - 1, y + 1>>] + 2 * I[<<x, y + 1>>] + I[<<x + 1, y + 1>>])
    - (I[<<x - 1, y - 1>>] + 2 * I[<<x, y - 1>>] + I[<<x + 1, y - 1>>])

RowsAlike(I) == \A p, q \in DOMAIN I : p[1] = q[1] => I[p] = I[q]

C10_SobelAxes ==
    (pc = "nms" /\ method = 0) =>
        LET I == GrayImage(image)
        IN \A p \in {q \in AllPixels : Interior(q, W, H)} :
              /\ GradientX(I, p[1], p[2]) = HorizontalSobel(I, p[1], p[2])
              /\ GradientY(I, p[1], p[2]) = VerticalSobel(I, p[1], p[2])
              /\ RowsAlike(I) =>
                    /\ GradientY(I, p[1], p[2]) = 0
                    /\ DiscretizeDirection(direction[p]) = 0
                    /\ SuppressionPair(DiscretizeDirection(direction[p]), p[1], p[2])
                          = <<<<p[1] - 1, p[2]>>, <<p[1] + 1, p[2]>>>>

====
